---- MODULE Spec2Model ----
(***************************************************************************)
(* Supermarket and inventory management (src/main.cpp).                    *)
(*                                                                         *)
(* The state is the Inventory (map<int, Product> products), the Reciept    *)
(* (vector<Product> soldItems, double total) and the position of the       *)
(* application shell (which role menu is showing).  Three specifications:  *)
(*   Spec        - the public methods of Inventory called directly with    *)
(*                 arbitrary int arguments;                                *)
(*   ReceiptSpec - the public methods of Reciept called directly;          *)
(*   AppSpec     - the console application: SupermarketApp::run and the    *)
(*                 three role menus driving the same methods.              *)
(* lastCall records the call the last step made: its arguments, what it    *)
(* returned and printed, and the inventory it started from; negativeUsed   *)
(* records whether insertProduct was ever given a negative quantity or     *)
(* restockProduct a negative amount.                                       *)
(***************************************************************************)
EXTENDS Integers, Sequences, FiniteSets, TLC

VARIABLES products, soldItems, total, menu, aborted, lastCall, calls,
          negativeUsed

vars == <<products, soldItems, total, menu, aborted, lastCall, calls,
          negativeUsed>>

----------------------------------------------------------------------------
(* Bounds of the model. *)
MaxId == 2
MaxCalls == 3
MaxItems == 2

(* Program constants. *)
MaxQuantity == 100
LowStock == 20
INT_MAX == 2147483647
INT_MIN == -INT_MAX - 1

Ids == 1..MaxId

(* name and unit price of the goods typed in; a price is a double that is  *)
(* a small whole number, so that price * qty and the running total are     *)
(* exact in double arithmetic.                                             *)
Goods == {<<"Milk", 2>>, <<"Tea", 5>>}

Quantities == {-1, 0, 50, 100, 101}

(* int arguments of restockProduct / sellProduct, the extremes of int      *)
(* included (getIntInput accepts every int).                               *)
Amounts == {INT_MIN, -50, 0, 1, 50, INT_MAX}

(* int arguments small enough for price * qty and the total to stay exact *)
SmallAmounts == {-50, 0, 10, 50}

----------------------------------------------------------------------------
(* struct Product *)
Product(i, n, q, pr) == [id |-> i, name |-> n, quantity |-> q, price |-> pr]

(* `Product sold;` / `Product p;` : every member value-initialised *)
DefaultProduct == Product(0, "", 0, 0)

ProductInputs ==
    {Product(i, g[1], q, g[2]) : i \in Ids, g \in Goods, q \in Quantities}

(* what getProductInput is given in AppSpec *)
TypedProducts == {p \in ProductInputs : p.quantity \in {50, 100, 101}}

(* toFileString with quantity and price written in the wrong order *)
toFileStringSwapped(p) == <<p.id, p.name, p.price, p.quantity>>

(* Product::toFileString : id, name, quantity, price joined by blanks;     *)
(* the line is modelled as the sequence of its four fields.                *)
toFileString(p) == <<p.id, p.name, p.quantity, p.price>>

----------------------------------------------------------------------------
(* int arithmetic.  Signed overflow is undefined behaviour: the operation  *)
(* either wraps (two's complement) or traps (-ftrapv, sanitizers).         *)
AddOverflows(a, b) ==
    \/ b > 0 /\ a > INT_MAX - b
    \/ b < 0 /\ a < INT_MIN - b

AddWrap(a, b) ==
    IF b > 0 /\ a > INT_MAX - b THEN (a + INT_MIN) + (b + INT_MIN)
    ELSE IF b < 0 /\ a < INT_MIN - b THEN (a - INT_MIN) + (b - INT_MIN)
    ELSE a + b

SubOverflows(a, b) ==
    \/ b < 0 /\ a > INT_MAX + b
    \/ b > 0 /\ a < INT_MIN + b

SubWrap(a, b) ==
    IF b < 0 /\ a > INT_MAX + b THEN (a + INT_MIN) - (b - INT_MIN)
    ELSE IF b > 0 /\ a < INT_MIN + b THEN (a - INT_MIN) - (b + INT_MIN)
    ELSE a - b

----------------------------------------------------------------------------
(* std::map<int, Product> as a function on the set of keys present *)
Count(prods, k) == IF k \in DOMAIN prods THEN 1 ELSE 0

Put(prods, k, v) ==
    [i \in DOMAIN prods \cup {k} |-> IF i = k THEN v ELSE prods[i]]

Erase(prods, k) == [i \in DOMAIN prods \ {k} |-> prods[i]]

EmptyMap == [i \in {} |-> DefaultProduct]

(* the result of an Inventory method: what it returned, whether the        *)
(* process trapped on an overflow, the map afterwards, outTaken and the    *)
(* stock warning printed                                                   *)
Result(ok, ab, prods, taken, notice) ==
    [ok |-> ok, aborted |-> ab, products |-> prods, taken |-> taken,
     notice |-> notice]

(* Inventory::insertProduct *)
insertProduct(prods, p) ==
    IF Count(prods, p.id) # 0
      THEN Result(FALSE, FALSE, prods, DefaultProduct, "NONE")
    ELSE IF p.quantity > MaxQuantity
      THEN Result(FALSE, FALSE, prods, DefaultProduct, "NONE")
    ELSE Result(TRUE, FALSE, Put(prods, p.id, p), DefaultProduct, "NONE")

(* deleteProduct that reports success without erasing *)
deleteProductNoErase(prods, id) ==
    IF Count(prods, id) # 0
      THEN Result(TRUE, FALSE, prods, DefaultProduct, "NONE")
      ELSE Result(FALSE, FALSE, prods, DefaultProduct, "NONE")

(* Inventory::deleteProduct *)
deleteProduct(prods, id) ==
    IF Count(prods, id) # 0
      THEN Result(TRUE, FALSE, Erase(prods, id), DefaultProduct, "NONE")
      ELSE Result(FALSE, FALSE, prods, DefaultProduct, "NONE")

(* Inventory::restockProduct : the set of outcomes (one, unless            *)
(* prod.quantity + amount overflows)                                       *)
restockProduct(prods, id, amount) ==
    IF Count(prods, id) = 0
      THEN {Result(FALSE, FALSE, prods, DefaultProduct, "NONE")}
    ELSE LET q == prods[id].quantity
             s == AddWrap(q, amount)
             done == IF s > MaxQuantity
                       THEN Result(FALSE, FALSE, prods, DefaultProduct, "NONE")
                       ELSE Result(TRUE, FALSE,
                                   Put(prods, id, [prods[id] EXCEPT !.quantity = s]),
                                   DefaultProduct, "NONE")
         IN  IF AddOverflows(q, amount)
               THEN {done, Result(FALSE, TRUE, prods, DefaultProduct, "NONE")}
               ELSE {done}

(* the stock warning sellProduct prints for the quantity left *)
Warning(q) ==
    IF q = 0 THEN "EMPTY"
    ELSE IF q < LowStock THEN "LOW"
    ELSE IF q = 100 THEN "FULL"
    ELSE "NONE"

(* Inventory::sellProduct : the set of outcomes (one, unless               *)
(* prod.quantity -= amount overflows)                                      *)
sellProduct(prods, id, amount) ==
    IF Count(prods, id) = 0
      THEN {Result(FALSE, FALSE, prods, DefaultProduct, "NONE")}
    ELSE LET q == prods[id].quantity
             r == SubWrap(q, amount)
             done == Result(TRUE, FALSE,
                            Put(prods, id, [prods[id] EXCEPT !.quantity = r]),
                            [prods[id] EXCEPT !.quantity = amount],
                            Warning(r))
         IN  IF q < amount
               THEN {Result(FALSE, FALSE, prods, DefaultProduct, "NONE")}
             ELSE IF SubOverflows(q, amount)
               THEN {done, Result(FALSE, TRUE, prods, DefaultProduct, "NONE")}
             ELSE {done}

(* iteration order of std::map<int, Product>: ascending key *)
RECURSIVE AscendingKeys(_)
AscendingKeys(S) ==
    IF S = {} THEN <<>>
    ELSE LET m == CHOOSE x \in S : \A y \in S : x <= y
         IN  <<m>> \o AscendingKeys(S \ {m})

(* Inventory::getFileContent after the header and timestamp lines *)
inventoryFileContent(prods) ==
    LET keys == AscendingKeys(DOMAIN prods)
    IN  [k \in 1..Len(keys) |-> toFileString(prods[keys[k]])]

----------------------------------------------------------------------------
(* class Reciept: soldItems and total *)
Receipt(items, tot) == [soldItems |-> items, total |-> tot]

(* Reciept::addItem *)
addItem(rc, name, qty, price) ==
    Receipt(Append(rc.soldItems, Product(0, name, qty, price)),
            rc.total + price * qty)

(* clear that empties soldItems and forgets to reset total *)
clearKeepsTotal(rc) == Receipt(<<>>, rc.total)

(* Reciept::clear *)
clear(rc) == Receipt(<<>>, 0)

(* Reciept::isEmpty *)
isEmpty(rc) == Len(rc.soldItems) = 0

(* Reciept::getFileContent without its fixed lines and the timestamp: one  *)
(* line per item (name, quantity, price, quantity * price), then the total *)
receiptFileContent(rc) ==
    [k \in 1..Len(rc.soldItems) |->
        <<rc.soldItems[k].name, rc.soldItems[k].quantity, rc.soldItems[k].price,
          rc.soldItems[k].quantity * rc.soldItems[k].price>>]
    \o <<<<"Total", rc.total>>>>

----------------------------------------------------------------------------
(* the call a step made *)
Call(op, id, amount, res, lines) ==
    [op |-> op, id |-> id, amount |-> amount, ok |-> res.ok,
     taken |-> res.taken, notice |-> res.notice, lines |-> lines,
     pre |-> products, preReceipt |-> Receipt(soldItems, total)]

NoResult == Result(TRUE, FALSE, EmptyMap, DefaultProduct, "NONE")

Init ==
    /\ products = EmptyMap
    /\ soldItems = <<>>
    /\ total = 0
    /\ menu = "login"
    /\ aborted = FALSE
    /\ calls = 0
    /\ negativeUsed = FALSE
    /\ lastCall = Call("none", 0, 0, NoResult, <<>>)

(* a direct call of an Inventory method *)
Apply(op, id, amount, res) ==
    /\ products' = res.products
    /\ aborted' = res.aborted
    /\ lastCall' = Call(op, id, amount, res, <<>>)
    /\ negativeUsed' = (negativeUsed \/ (op \in {"insert", "restock"} /\ amount < 0))
    /\ UNCHANGED <<soldItems, total, menu>>

InsertProduct ==
    /\ ~aborted /\ calls < MaxCalls
    /\ \E p \in ProductInputs :
          Apply("insert", p.id, p.quantity, insertProduct(products, p))
    /\ calls' = calls + 1

DeleteProduct ==
    /\ ~aborted
    /\ \E id \in Ids : Apply("delete", id, 0, deleteProduct(products, id))
    /\ UNCHANGED calls

RestockProduct ==
    /\ ~aborted /\ calls < MaxCalls
    /\ \E id \in Ids, amount \in Amounts :
          \E res \in restockProduct(products, id, amount) :
             Apply("restock", id, amount, res)
    /\ calls' = calls + 1

SellProduct ==
    /\ ~aborted /\ calls < MaxCalls
    /\ \E id \in Ids, amount \in Amounts :
          \E res \in sellProduct(products, id, amount) :
             Apply("sell", id, amount, res)
    /\ calls' = calls + 1

Next == InsertProduct \/ DeleteProduct \/ RestockProduct \/ SellProduct

Spec == Init /\ [][Next]_vars

----------------------------------------------------------------------------
(* The Reciept methods called directly. *)
ApplyReceipt(op, qty, rc, lines) ==
    /\ soldItems' = rc.soldItems
    /\ total' = rc.total
    /\ lastCall' = Call(op, 0, qty, NoResult, lines)
    /\ UNCHANGED <<products, menu, aborted, calls, negativeUsed>>

AddItem ==
    /\ ~aborted /\ Len(soldItems) < MaxItems
    /\ \E g \in Goods, qty \in SmallAmounts :
          ApplyReceipt("addItem", qty,
                       addItem(Receipt(soldItems, total), g[1], qty, g[2]), <<>>)

Clear ==
    /\ ~aborted
    /\ ApplyReceipt("clear", 0, clear(Receipt(soldItems, total)), <<>>)

ReceiptGetFileContent ==
    /\ ~aborted
    /\ ApplyReceipt("exportReceipt", 0, Receipt(soldItems, total),
                    receiptFileContent(Receipt(soldItems, total)))

ReceiptNext == AddItem \/ Clear \/ ReceiptGetFileContent

ReceiptSpec == Init /\ [][ReceiptNext]_vars

----------------------------------------------------------------------------
(* The console application.  menu is where SupermarketApp::run stands:     *)
(* "login" (the role menu of run), "admin", "manager", "cashier" (inside   *)
(* that menu's show loop) or "exit".                                       *)
InvalidChoices == {0, 7}

Unchanged(prods) == Result(TRUE, FALSE, prods, DefaultProduct, "NONE")

(* one command: the inventory result, the receipt and the menu afterwards *)
AppStep(op, id, amount, res, rc, lines, m) ==
    /\ products' = res.products
    /\ aborted' = res.aborted
    /\ soldItems' = rc.soldItems
    /\ total' = rc.total
    /\ menu' = m
    /\ lastCall' = Call(op, id, amount, res, lines)
    /\ negativeUsed' = (negativeUsed \/ (op \in {"insert", "restock"} /\ amount < 0))

(* SupermarketApp::run, role == 4 *)
Exit ==
    /\ menu = "login" /\ ~aborted
    /\ AppStep("exit", 0, 4, Unchanged(products), Receipt(soldItems, total),
               <<>>, "exit")
    /\ UNCHANGED calls

(* SupermarketApp::handleRoleSelection followed by menu->show() *)
HandleRoleSelection ==
    /\ menu = "login" /\ ~aborted
    /\ \E role \in (1..3) \cup InvalidChoices :
          AppStep(IF role \in 1..3 THEN "enter" ELSE "invalid", 0, role,
                  Unchanged(products), Receipt(soldItems, total), <<>>,
                  CASE role = 1 -> "admin"
                    [] role = 2 -> "manager"
                    [] role = 3 -> "cashier"
                    [] OTHER -> "login")
    /\ UNCHANGED calls

(* the bodies the role menus share word for word *)
MenuInsertProduct(m) ==
    /\ menu = m /\ ~aborted /\ calls < MaxCalls
    /\ \E p \in TypedProducts :
          AppStep("insert", p.id, p.quantity, insertProduct(products, p),
                  Receipt(soldItems, total), <<>>, m)
    /\ calls' = calls + 1

MenuDeleteProduct(m) ==
    /\ menu = m /\ ~aborted
    /\ \E id \in Ids :
          AppStep("delete", id, 0, deleteProduct(products, id),
                  Receipt(soldItems, total), <<>>, m)
    /\ UNCHANGED calls

MenuRestockProduct(m) ==
    /\ menu = m /\ ~aborted /\ calls < MaxCalls
    /\ \E id \in Ids, amount \in SmallAmounts :
          \E res \in restockProduct(products, id, amount) :
             AppStep("restock", id, amount, res, Receipt(soldItems, total),
                     <<>>, m)
    /\ calls' = calls + 1

(* sellProduct of a menu that adds the receipt line without looking at     *)
(* what Inventory::sellProduct returned                                    *)
MenuSellProductAlwaysAdds(m) ==
    /\ menu = m /\ ~aborted /\ calls < MaxCalls
    /\ \E id \in Ids, amount \in SmallAmounts :
          \E res \in sellProduct(products, id, amount) :
             AppStep("sell", id, amount, res,
                     addItem(Receipt(soldItems, total), res.taken.name,
                             amount, res.taken.price),
                     <<>>, m)
    /\ calls' = calls + 1

(* AdminMenu::sellProduct, CashierMenu::sellProduct *)
MenuSellProduct(m) ==
    /\ menu = m /\ ~aborted /\ calls < MaxCalls
    /\ \E id \in Ids, amount \in SmallAmounts :
          \E res \in sellProduct(products, id, amount) :
             AppStep("sell", id, amount, res,
                     IF res.ok
                       THEN addItem(Receipt(soldItems, total), res.taken.name,
                                    amount, res.taken.price)
                       ELSE Receipt(soldItems, total),
                     <<>>, m)
    /\ calls' = calls + 1

MenuShowInventory(m) ==
    /\ menu = m /\ ~aborted
    /\ AppStep("show", 0, 0, Unchanged(products), Receipt(soldItems, total),
               <<>>, m)
    /\ UNCHANGED calls

(* exportInventory: IPrintable::printToFile of the inventory; the file may *)
(* fail to open                                                            *)
MenuExportInventory(m) ==
    /\ menu = m /\ ~aborted
    /\ \E opened \in BOOLEAN :
          AppStep("exportInventory", 0, 0,
                  Result(opened, FALSE, products, DefaultProduct, "NONE"),
                  Receipt(soldItems, total), inventoryFileContent(products), m)
    /\ UNCHANGED calls

(* exportReceipt that starts a new receipt once the file is written *)
MenuExportReceiptClears(m) ==
    /\ menu = m /\ ~aborted
    /\ IF isEmpty(Receipt(soldItems, total))
         THEN AppStep("exportReceipt", 0, 0,
                      Result(FALSE, FALSE, products, DefaultProduct, "NONE"),
                      Receipt(soldItems, total), <<>>, m)
         ELSE \E opened \in BOOLEAN :
                 AppStep("exportReceipt", 0, 0,
                         Result(opened, FALSE, products, DefaultProduct, "NONE"),
                         IF opened THEN clear(Receipt(soldItems, total))
                                   ELSE Receipt(soldItems, total),
                         receiptFileContent(Receipt(soldItems, total)), m)
    /\ UNCHANGED calls

(* exportReceipt: refused on an empty receipt, else printToFile *)
MenuExportReceipt(m) ==
    /\ menu = m /\ ~aborted
    /\ IF isEmpty(Receipt(soldItems, total))
         THEN AppStep("exportReceipt", 0, 0,
                      Result(FALSE, FALSE, products, DefaultProduct, "NONE"),
                      Receipt(soldItems, total), <<>>, m)
         ELSE \E opened \in BOOLEAN :
                 AppStep("exportReceipt", 0, 0,
                         Result(opened, FALSE, products, DefaultProduct, "NONE"),
                         Receipt(soldItems, total),
                         receiptFileContent(Receipt(soldItems, total)), m)
    /\ UNCHANGED calls

(* processChoice, default: *)
MenuInvalidChoice(m, valid) ==
    /\ menu = m /\ ~aborted
    /\ \E choice \in InvalidChoices \ valid :
          AppStep("invalid", 0, choice, Unchanged(products),
                  Receipt(soldItems, total), <<>>, m)
    /\ UNCHANGED calls

(* show(): the break on the last choice; run() shows the role menu again *)
MenuBack(m, choice) ==
    /\ menu = m /\ ~aborted
    /\ AppStep("back", 0, choice, Unchanged(products),
               Receipt(soldItems, total), <<>>, "login")
    /\ UNCHANGED calls

(* AdminMenu *)
AdminInsertProduct == MenuInsertProduct("admin")
AdminDeleteProduct == MenuDeleteProduct("admin")
AdminRestockProduct == MenuRestockProduct("admin")
AdminSellProduct == MenuSellProduct("admin")
AdminShowInventory == MenuShowInventory("admin")
AdminExportInventory == MenuExportInventory("admin")
AdminExportReceipt == MenuExportReceipt("admin")
AdminInvalidChoice == MenuInvalidChoice("admin", 1..8)
AdminBack == MenuBack("admin", 8)

(* InventoryManagerMenu *)
ManagerInsertProduct == MenuInsertProduct("manager")
ManagerDeleteProduct == MenuDeleteProduct("manager")
ManagerRestockProduct == MenuRestockProduct("manager")
ManagerShowInventory == MenuShowInventory("manager")
ManagerExportInventory == MenuExportInventory("manager")
ManagerInvalidChoice == MenuInvalidChoice("manager", 1..6)
ManagerBack == MenuBack("manager", 6)

(* CashierMenu *)
CashierSellProduct == MenuSellProduct("cashier")
CashierShowInventory == MenuShowInventory("cashier")
CashierExportReceipt == MenuExportReceipt("cashier")
CashierInvalidChoice == MenuInvalidChoice("cashier", 1..4)
CashierBack == MenuBack("cashier", 4)

AppNext ==
    \/ Exit \/ HandleRoleSelection
    \/ AdminInsertProduct \/ AdminDeleteProduct \/ AdminRestockProduct
    \/ AdminSellProduct \/ AdminShowInventory \/ AdminExportInventory
    \/ AdminExportReceipt \/ AdminInvalidChoice \/ AdminBack
    \/ ManagerInsertProduct \/ ManagerDeleteProduct \/ ManagerRestockProduct
    \/ ManagerShowInventory \/ ManagerExportInventory \/ ManagerInvalidChoice
    \/ ManagerBack
    \/ CashierSellProduct \/ CashierShowInventory \/ CashierExportReceipt
    \/ CashierInvalidChoice \/ CashierBack

AppSpec == Init /\ [][AppNext]_vars

----------------------------------------------------------------------------
(* Properties of the Inventory methods. *)

SameGoods(p, q) == p.id = q.id /\ p.name = q.name /\ p.price = q.price

OthersUnchanged(id) ==
    /\ DOMAIN products = DOMAIN lastCall.pre
    /\ \A i \in DOMAIN products \ {id} : products[i] = lastCall.pre[i]

(* x is the int a + b, resp. a - b, of the integers *)
IsSum(x, a, b) == ~AddOverflows(a, b) /\ x = a + b
IsDifference(x, a, b) == ~SubOverflows(a, b) /\ x = a - b

(* a + b > 100 over the integers *)
SumExceedsMax(a, b) ==
    IF AddOverflows(a, b) THEN b > 0 ELSE a + b > MaxQuantity

(* C1: as long as insertProduct was never given a negative quantity and    *)
(* restockProduct never a negative amount, every stored product has        *)
(* 0 <= quantity <= 100.                                                   *)
C1_QuantityInRange ==
    ~negativeUsed =>
        \A i \in DOMAIN products :
            0 <= products[i].quantity /\ products[i].quantity <= MaxQuantity

(* C2: a successful sellProduct(id, n) returns a snapshot with quantity n  *)
(* and the stored product's id, name and price, leaves the stored quantity *)
(* at the pre-sale quantity minus n, and changes no other product.         *)
C2_SaleDecrementsByAmount ==
    (lastCall.op = "sell" /\ lastCall.ok) =>
        /\ lastCall.taken.quantity = lastCall.amount
        /\ SameGoods(lastCall.taken, lastCall.pre[lastCall.id])
        /\ SameGoods(products[lastCall.id], lastCall.pre[lastCall.id])
        /\ IsDifference(products[lastCall.id].quantity,
                        lastCall.pre[lastCall.id].quantity, lastCall.amount)
        /\ OthersUnchanged(lastCall.id)

(* the calls C3 lists as failing *)
MustFail(c) ==
    \/ c.op = "insert" /\ (c.id \in DOMAIN c.pre \/ c.amount > MaxQuantity)
    \/ c.op \in {"delete", "restock", "sell"} /\ c.id \notin DOMAIN c.pre
    \/ c.op = "restock" /\ c.id \in DOMAIN c.pre
         /\ SumExceedsMax(c.pre[c.id].quantity, c.amount)
    \/ c.op = "sell" /\ c.id \in DOMAIN c.pre
         /\ c.pre[c.id].quantity < c.amount

(* C3: insertProduct with a present id or quantity > 100, deleteProduct,   *)
(* restockProduct or sellProduct on an absent id, restockProduct with      *)
(* current + amount > 100 and sellProduct with current < amount all return *)
(* failure, and a failing call leaves the map exactly as it was.           *)
C3_FailureChangesNothing ==
    ~aborted =>
        /\ MustFail(lastCall) => ~lastCall.ok
        /\ ~lastCall.ok => products = lastCall.pre

(* C4: restockProduct(id, amount) on a present id succeeds exactly when    *)
(* current + amount <= 100, and then the stored quantity is                *)
(* current + amount with id, name, price and all other products unchanged. *)
C4_RestockExact ==
    (lastCall.op = "restock" /\ lastCall.id \in DOMAIN lastCall.pre /\ ~aborted) =>
        /\ lastCall.ok <=>
             ~SumExceedsMax(lastCall.pre[lastCall.id].quantity, lastCall.amount)
        /\ lastCall.ok =>
             /\ IsSum(products[lastCall.id].quantity,
                      lastCall.pre[lastCall.id].quantity, lastCall.amount)
             /\ SameGoods(products[lastCall.id], lastCall.pre[lastCall.id])
             /\ OthersUnchanged(lastCall.id)

(* C5: after a successful sellProduct leaving quantity q, EMPTY is printed *)
(* iff q = 0, LOW iff 0 < q < 20, FULL iff q = 100.                        *)
C5_WarningMatchesQuantity ==
    (lastCall.op = "sell" /\ lastCall.ok) =>
        LET q == products[lastCall.id].quantity
        IN  /\ lastCall.notice = "EMPTY" <=> q = 0
            /\ lastCall.notice = "LOW" <=> (0 < q /\ q < LowStock)
            /\ lastCall.notice = "FULL" <=> q = 100

(* C7 as stated: after insertProduct(p), whatever it returned,             *)
(* deleteProduct(p.id) gives back the map insertProduct started from.      *)
C7_InsertDeleteAlways ==
    lastCall.op = "insert" =>
        deleteProduct(products, lastCall.id).products = lastCall.pre

(* C7 amended: after insertProduct(p) with p.id not yet present,           *)
(* deleteProduct(p.id) gives back the map insertProduct started from.      *)
C7_InsertDeleteFreshId ==
    (lastCall.op = "insert" /\ lastCall.id \notin DOMAIN lastCall.pre) =>
        deleteProduct(products, lastCall.id).products = lastCall.pre

C7_Witness ==
    /\ lastCall.op = "insert" /\ lastCall.ok
    /\ lastCall.pre # EmptyMap
    /\ lastCall.id \in DOMAIN products

(* C8: sellProduct never prints FULL: after a successful sale the stored   *)
(* quantity is not 100.                                                    *)
C8_SaleNeverFull ==
    (lastCall.op = "sell" /\ lastCall.ok) =>
        /\ lastCall.notice # "FULL"
        /\ products[lastCall.id].quantity # 100

----------------------------------------------------------------------------
(* Properties of the Reciept. *)
RECURSIVE SumOfItems(_)
SumOfItems(items) ==
    IF items = <<>> THEN 0
    ELSE SumOfItems(SubSeq(items, 1, Len(items) - 1))
         + items[Len(items)].quantity * items[Len(items)].price

(* C6: total is the sum of quantity * price over the items on the receipt, *)
(* and after clear() the receipt is empty with total 0.                    *)
C6_TotalIsSumOfItems ==
    /\ total = SumOfItems(soldItems)
    /\ lastCall.op = "clear" =>
         (isEmpty(Receipt(soldItems, total)) /\ soldItems = <<>> /\ total = 0)

(* clear() called on a receipt of two items with a non-zero total *)
C6_Witness ==
    /\ lastCall.op = "clear"
    /\ Len(lastCall.preReceipt.soldItems) = 2
    /\ lastCall.preReceipt.total # 0
    /\ lastCall.preReceipt.total =
          SumOfItems(lastCall.preReceipt.soldItems)

----------------------------------------------------------------------------
(* Properties of the application. *)

(* C9: the body of an inventory export has exactly one line per stored     *)
(* product, in strictly ascending id order, each line the product's id,    *)
(* name, quantity and price in that order; the export changes neither the  *)
(* inventory nor the receipt.                                              *)
C9_ExportListsProducts ==
    lastCall.op = "exportInventory" =>
        LET L == lastCall.lines
        IN  /\ Len(L) = Cardinality(DOMAIN products)
            /\ \A i \in DOMAIN products :
                  \E k \in 1..Len(L) :
                     L[k] = <<i, products[i].name, products[i].quantity,
                              products[i].price>>
            /\ \A k \in 1..(Len(L) - 1) : L[k][1] < L[k + 1][1]
            /\ products = lastCall.pre
            /\ Receipt(soldItems, total) = lastCall.preReceipt

C9_Witness ==
    /\ lastCall.op = "exportInventory" /\ lastCall.ok
    /\ Cardinality(DOMAIN products) >= 2
    /\ \E i \in DOMAIN products : products[i].quantity # products[i].price
    /\ soldItems # <<>>

IsPrefix(s, t) == Len(s) <= Len(t) /\ SubSeq(t, 1, Len(s)) = s

(* C10: the receipt starts empty; leaving or entering a role menu, showing *)
(* the inventory and exporting the inventory or the receipt leave items    *)
(* and total as they were; no command removes or alters an item already on *)
(* the receipt.                                                            *)
C10_ReceiptSurvives ==
    /\ lastCall.op = "none" => (soldItems = <<>> /\ total = 0)
    /\ lastCall.op \in {"enter", "back", "show", "exportInventory",
                        "exportReceipt"}
         => Receipt(soldItems, total) = lastCall.preReceipt
    /\ IsPrefix(lastCall.preReceipt.soldItems, soldItems)

(* a role menu entered with a sale of an earlier session on the receipt *)
C10_Witness ==
    /\ lastCall.op = "enter" /\ menu = "cashier"
    /\ soldItems # <<>> /\ total # 0

(* C11: a sell command of the Admin or Cashier menu appends one receipt    *)
(* line exactly when Inventory::sellProduct succeeds, with the sold        *)
(* product's name, the sold amount and the product's unit price, and adds  *)
(* amount * price to the total; when sellProduct fails, items and total    *)
(* are unchanged.                                                          *)
C11_ReceiptLineIffSold ==
    lastCall.op = "sell" =>
        /\ menu \in {"admin", "cashier"}
        /\ lastCall.ok <=>
             Len(soldItems) = Len(lastCall.preReceipt.soldItems) + 1
        /\ lastCall.ok =>
             LET p == lastCall.pre[lastCall.id]
                 line == soldItems[Len(soldItems)]
             IN  /\ SubSeq(soldItems, 1, Len(soldItems) - 1)
                      = lastCall.preReceipt.soldItems
                 /\ line.name = p.name
                 /\ line.quantity = lastCall.amount
                 /\ line.price = p.price
                 /\ total = lastCall.preReceipt.total
                              + lastCall.amount * p.price
        /\ ~lastCall.ok => Receipt(soldItems, total) = lastCall.preReceipt

(* a second sale, in the Cashier menu, of a product with stock left *)
C11_Witness ==
    /\ lastCall.op = "sell" /\ lastCall.ok /\ menu = "cashier"
    /\ lastCall.amount > 0
    /\ lastCall.preReceipt.soldItems # <<>>
    /\ Len(soldItems) = Len(lastCall.preReceipt.soldItems) + 1

(* C12: inside a Cashier menu session the only inventory mutation is a     *)
(* sale: the set of product ids does not change, no stored quantity        *)
(* increases and the receipt total does not decrease.                      *)
C12_CashierOnlySells ==
    (menu = "cashier" /\ lastCall.op # "enter") =>
        /\ products # lastCall.pre => lastCall.op = "sell"
        /\ DOMAIN products = DOMAIN lastCall.pre
        /\ \A i \in DOMAIN products :
              products[i].quantity <= lastCall.pre[i].quantity
        /\ total >= lastCall.preReceipt.total
====
